---- MODULE Spec2Model ----
(***************************************************************************)
(* A model of the TGA codec of the renderer repository: the class TGA of   *)
(* tga.cc / tga.hh.  Files are sequences of bytes in the packed,           *)
(* little-endian layout the code reads and writes with fread / fwrite; the *)
(* image object is the set of members of class TGA.                        *)
(***************************************************************************)
EXTENDS Integers, Sequences, FiniteSets, TLC

VARIABLES
    disk,      \* the bytes of the file at the path, or NoFile
    pc,        \* position of the driver: "start", "file", "image", "exited"
    img,       \* the members of the TGA object, or NoImage
    op,        \* the last operation and its arguments
    outcome,   \* how the last operation ended
    pre,       \* the TGA object before the last operation
    io,        \* the file handle and the reads / writes of the last operation
    rle,       \* bookkeeping of the last run of read_rle_image_data
    written,   \* the TGA object as it was when write_to_file last returned
    origin     \* how the driver got its first object: "file", "canvas", "default"

vars == <<disk, pc, img, op, outcome, pre, io, rle, written, origin>>

\* no file at the path: a value that is no sequence of bytes
NoFile  == <<-1>>
\* no object: a value without the members of a TGA
NoImage == [none |-> TRUE]

(***************************************************************************)
(* Bounds of the model.                                                    *)
(***************************************************************************)
MaxW == 3
MaxH == 3
MaxId == 2

(***************************************************************************)
(* Sizes of the packed structs.                                            *)
(***************************************************************************)
HEADER_SIZE == 18
FOOTER_SIZE == 26
EXT_AREA_SIZE == 495
SIGNATURE_SIZE == 18
AUTHOR_NAME_OFFSET == 2
COLOR_CORRECTION_OFFSET_AT == 482
POSTAGE_STAMP_OFFSET_AT == 486
SCAN_LINE_TBL_OFFSET_AT == 490

\* "TRUEVISION-XFILE." and its terminating NUL
TGA_SIGNATURE ==
    <<84, 82, 85, 69, 86, 73, 83, 73, 79, 78, 45, 88, 70, 73, 76, 69, 46, 0>>

\* "Daniel Schuette" and its terminating NUL
AUTHOR_NAME ==
    <<68, 97, 110, 105, 101, 108, 32, 83, 99, 104, 117, 101, 116, 116, 101, 0>>

(***************************************************************************)
(* Bytes and byte sequences.                                               *)
(***************************************************************************)
Min(a, b) == IF a < b THEN a ELSE b

Zeros(n) == [i \in 1..n |-> 0]

\* the n bytes of s that start at the 0-based offset off (fewer at the end)
Slice(s, off, n) ==
    LET m == IF off >= Len(s) THEN 0 ELSE Min(n, Len(s) - off)
    IN  [i \in 1..m |-> s[off + i]]

LE16(v) == <<v % 256, (v \div 256) % 256>>

LE32(v) == <<v % 256, (v \div 256) % 256, (v \div 65536) % 256,
             (v \div 16777216) % 256>>

U16At(s, off) == s[off + 1] + 256 * s[off + 2]

\* a uint32_t of the file.  The values of 2^31 and more, which the integers
\* of the model checker do not hold, are all read as 2^31 - 1: the code uses
\* such a value as a file offset or compares it to 0, and every file of the
\* model ends long before either offset.
U32At(s, off) ==
    IF s[off + 4] >= 128 THEN 2147483647
    ELSE s[off + 1] + 256 * s[off + 2] + 65536 * s[off + 3]
         + 16777216 * s[off + 4]

\* b & mask for a mask that is one bit, 2^k
BitSet(b, k) == (b \div k) % 2 = 1

ClearBit(b, k) == IF BitSet(b, k) THEN b - k ELSE b

(***************************************************************************)
(* The header, 18 packed bytes.                                            *)
(***************************************************************************)
ZeroHeader ==
    [id_length |-> 0, color_map_type |-> 0, image_type |-> 0,
     color_map_spec |-> [first_entry_index |-> 0, length |-> 0,
                         bits_per_pixel |-> 0],
     image_spec |-> [x_origin |-> 0, y_origin |-> 0, width |-> 0, height |-> 0,
                     bits_per_pixel |-> 0, descriptor |-> 0]]

HeaderBytes(h) ==
    <<h.id_length, h.color_map_type, h.image_type>>
    \o LE16(h.color_map_spec.first_entry_index)
    \o LE16(h.color_map_spec.length)
    \o <<h.color_map_spec.bits_per_pixel>>
    \o LE16(h.image_spec.x_origin) \o LE16(h.image_spec.y_origin)
    \o LE16(h.image_spec.width) \o LE16(h.image_spec.height)
    \o <<h.image_spec.bits_per_pixel, h.image_spec.descriptor>>

HeaderOf(s) ==
    [id_length |-> s[1], color_map_type |-> s[2], image_type |-> s[3],
     color_map_spec |-> [first_entry_index |-> U16At(s, 3),
                         length |-> U16At(s, 5),
                         bits_per_pixel |-> s[8]],
     image_spec |-> [x_origin |-> U16At(s, 8), y_origin |-> U16At(s, 10),
                     width |-> U16At(s, 12), height |-> U16At(s, 14),
                     bits_per_pixel |-> s[17], descriptor |-> s[18]]]

(***************************************************************************)
(* The footer, 26 packed bytes, and the extension area, 495 packed bytes   *)
(* that the object keeps in the layout of the file.                        *)
(***************************************************************************)
ZeroFooter ==
    [ext_area_offset |-> 0, dev_dir_offset |-> 0,
     signature |-> Zeros(SIGNATURE_SIZE)]

FooterBytes(f) ==
    LE32(f.ext_area_offset) \o LE32(f.dev_dir_offset) \o f.signature

FooterOf(s) ==
    [ext_area_offset |-> U32At(s, 0), dev_dir_offset |-> U32At(s, 4),
     signature |-> Slice(s, 8, SIGNATURE_SIZE)]

ZeroExtArea == Zeros(EXT_AREA_SIZE)

ExtLength(e) == U16At(e, 0)

\* strncmp(a, b, n) == 0
strncmp_eq(a, b, n) ==
    \A i \in 1..n :
        (\A j \in 1..(i - 1) : a[j] = b[j] /\ a[j] # 0) => a[i] = b[i]

(***************************************************************************)
(* The object: the members of class TGA.                                   *)
(***************************************************************************)
DefaultTGA ==
    [header |-> ZeroHeader, footer |-> ZeroFooter, ext_area |-> ZeroExtArea,
     is_new_format |-> FALSE, color_map |-> <<>>, image_data |-> <<>>,
     image_id_data |-> <<>>]

BytesPerEntry(bits) == (bits \div 8) + (IF bits % 8 = 0 THEN 0 ELSE 1)

get_pixel_width(t) == BytesPerEntry(t.header.image_spec.bits_per_pixel) % 256

get_bytes_width(t) == t.header.image_spec.width * get_pixel_width(t)

get_height(t) == t.header.image_spec.height

\* is_empty_image is called by main and defined in no file of the sources:
\* true iff image_type is 0, "no image data included"
is_empty_image(t) == t.header.image_type = 0

(***************************************************************************)
(* How an operation ends.  fail() prints a message and calls exit(1); the  *)
(* messages are grouped into the kinds of error they report.  A failed     *)
(* assert aborts the process.                                              *)
(***************************************************************************)
Ok == [kind |-> "Ok", msg |-> "", field |-> "", expected |-> 0, actual |-> 0]

Failure(kind, msg) ==
    [kind |-> kind, msg |-> msg, field |-> "", expected |-> 0, actual |-> 0]

ShortRead(name, n, ret) ==
    [kind |-> "Truncated", msg |-> "expected to read n bytes in field",
     field |-> name, expected |-> n, actual |-> ret]

ReadEvent(name, at, want, got) ==
    [name |-> name, at |-> at, want |-> want, got |-> got]

NoRle ==
    [ran |-> FALSE, buf |-> <<>>, buf_len |-> 0, total |-> 0, bpp |-> 0,
     pos |-> 0, data_len |-> 0, out |-> <<>>, oob |-> FALSE]

\* the FILE after the process ended with out: exit(1), which fail() calls,
\* closes every open stream on its way out; abort(), which a failed assert
\* calls, and a crash end the process with the stream as it was
HandleAtEnd(out, handle) ==
    IF out.kind \in {"Ok", "AssertFail", "Crash"} THEN handle ELSE "exit"

\* the state of a constructor that has opened the file: the object under
\* construction, the read position of the FILE, what was read so far
Opened ==
    [out |-> Ok, t |-> DefaultTGA, pos |-> 0, reads |-> <<>>, warns |-> <<>>,
     rle |-> NoRle, handle |-> "open", overflow |-> FALSE]

(***************************************************************************)
(* read_n_bytes: fread of n bytes at the read position, fail on a short    *)
(* read.  Returns the step with the bytes read in the member named by      *)
(* which.                                                                  *)
(***************************************************************************)
\* read_n_bytes that does not look at the number of bytes fread returned
read_n_bytes_Unchecked(file, s, n, name) ==
    LET got == Slice(file, s.pos, n)
        ev  == ReadEvent(name, s.pos, n, Len(got))
    IN  [bytes |-> got,
         s |-> [s EXCEPT !.pos = s.pos + Len(got),
                         !.reads = Append(s.reads, ev)]]

read_n_bytes(file, s, n, name) ==
    LET got == Slice(file, s.pos, n)
        ev  == ReadEvent(name, s.pos, n, Len(got))
    IN  [bytes |-> got,
         s |-> [s EXCEPT !.pos = s.pos + Len(got),
                         !.reads = Append(s.reads, ev),
                         !.out = IF Len(got) # n
                                 THEN ShortRead(name, n, Len(got))
                                 ELSE Ok]]

(***************************************************************************)
(* parse_header                                                            *)
(***************************************************************************)
HeaderMalformed(h) ==
    /\ h.color_map_type = 0
    /\ \/ h.color_map_spec.bits_per_pixel # 0
       \/ h.color_map_spec.first_entry_index # 0
       \/ h.color_map_spec.length # 0

\* the check of width and height that forgets bits_per_pixel
HeaderZeroDim_NoBpp(h) ==
    \/ h.image_spec.width = 0
    \/ h.image_spec.height = 0

HeaderZeroDim(h) ==
    \/ h.image_spec.width = 0
    \/ h.image_spec.height = 0
    \/ h.image_spec.bits_per_pixel = 0

parse_header(file, s) ==
    LET got == Slice(file, s.pos, HEADER_SIZE)
        ev  == ReadEvent("header", s.pos, HEADER_SIZE, Len(got))
        s1  == [s EXCEPT !.pos = s.pos + Len(got),
                         !.reads = Append(s.reads, ev)]
    IN  IF Len(got) # HEADER_SIZE
        THEN [s1 EXCEPT !.out = Failure("Truncated",
                                        "cannot read TGA header from file")]
        ELSE LET h  == HeaderOf(got)
                 s2 == [s1 EXCEPT !.t.header = h]
             IN  IF HeaderMalformed(h)
                 THEN [s2 EXCEPT !.out = Failure("Malformed",
                                                 "malformed TGA header")]
                 ELSE IF HeaderZeroDim(h)
                 THEN [s2 EXCEPT !.out =
                          Failure("Malformed",
                                  "one of image width/height/bpp was set =0")]
                 ELSE s2

(***************************************************************************)
(* read_rle_image_data.  buf holds the buf_len bytes that fread delivered; *)
(* data_len is a size_t, so data_len -= n wraps instead of going negative: *)
(* the model keeps the difference as an integer d, the value of the size_t *)
(* is d modulo 2^64, and data_len > 0 reads d # 0.  The loop stops at the  *)
(* first read of buf at an index that is not below buf_len (oob): what     *)
(* happens from there is undefined.                                        *)
(***************************************************************************)
is_rle_packet(b) == BitSet(b, 128)

\* get_run_length without the + 1
get_run_length_NoPlusOne(b) == b % 128

get_run_length(b) == (b % 128) + 1

\* run_len copies of the pixel at the start of px
Repeat(px, bpp, run_len) ==
    [i \in 1..(run_len * bpp) |-> px[((i - 1) % bpp) + 1]]

RECURSIVE rle_loop(_, _, _, _)
rle_loop(buf, buf_len, bpp, st) ==
    IF ~(st.data_len # 0 /\ buf_len > 0) THEN st
    ELSE IF st.pos >= buf_len THEN [st EXCEPT !.oob = TRUE]
    ELSE
        LET b        == buf[st.pos + 1]
            run_len  == get_run_length(b)
            pos      == st.pos + 1
            data_len == st.data_len - run_len * bpp
            need     == IF is_rle_packet(b) THEN bpp ELSE run_len * bpp
            src      == Slice(buf, pos, need)
        IN  IF pos + need > buf_len
            THEN [st EXCEPT !.pos = pos, !.data_len = data_len,
                            !.out = st.out \o src, !.oob = TRUE]
            ELSE rle_loop(buf, buf_len, bpp,
                    [st EXCEPT !.pos = pos + need, !.data_len = data_len,
                               !.out = st.out \o
                                   (IF is_rle_packet(b)
                                    THEN Repeat(src, bpp, run_len)
                                    ELSE src)])

read_rle_image_data(s, buf, buf_len, data_len) ==
    LET bpp == get_pixel_width(s.t)
        st  == rle_loop(buf, buf_len, bpp,
                        [pos |-> 0, data_len |-> data_len, out |-> <<>>,
                         oob |-> FALSE])
        s1  == [s EXCEPT !.t.image_data = st.out,
                         !.rle = [ran |-> TRUE, buf |-> buf,
                                  buf_len |-> buf_len, total |-> data_len,
                                  bpp |-> bpp,
                                  pos |-> st.pos, data_len |-> st.data_len,
                                  out |-> st.out, oob |-> st.oob]]
    IN  IF st.oob
        THEN [s1 EXCEPT !.out = Failure("OutOfBounds",
                                        "read of buf outside the bytes read")]
        ELSE IF ~(st.data_len = 0 /\ st.pos + FOOTER_SIZE = buf_len)
        THEN [s1 EXCEPT !.out = Failure("AssertFail",
                                        "data_len == 0 && pos + sizeof(Footer) == buf_len")]
        ELSE s1

(***************************************************************************)
(* flip_image_vertically, flip_image_horizontally: the swaps of bytes of   *)
(* image_data, in the order of the loops.                                  *)
(***************************************************************************)
\* the vertical flip whose inner loop runs over the pixels of a row, not
\* over its bytes
VerticalSwaps_PixelColumns(t) ==
    LET bw == get_bytes_width(t)
        w  == t.header.image_spec.width
        h  == get_height(t)
    IN  [k \in 1..((h \div 2) * w) |->
            LET row == (k - 1) \div w
                col == (k - 1) % w
            IN  <<row * bw + col, (h - row - 1) * bw + col>>]

VerticalSwaps(t) ==
    LET bw == get_bytes_width(t)
        h  == get_height(t)
    IN  [k \in 1..((h \div 2) * bw) |->
            LET row == (k - 1) \div bw
                col == (k - 1) % bw
            IN  <<row * bw + col, (h - row - 1) * bw + col>>]

\* the horizontal flip that mirrors the bytes of a row, not its pixels
HorizontalSwaps_ByBytes(t) ==
    LET h  == get_height(t)
        bw == get_bytes_width(t)
    IN  [k \in 1..((bw \div 2) * h) |->
            LET ccol == (k - 1) \div h
                row  == (k - 1) % h
            IN  <<row * bw + ccol, row * bw + (bw - 1 - ccol)>>]

HorizontalSwaps(t) ==
    LET bpp == get_pixel_width(t)
        w   == t.header.image_spec.width
        h   == get_height(t)
        bw  == get_bytes_width(t)
    IN  [k \in 1..((w \div 2) * bpp * h) |->
            LET col   == (k - 1) \div (bpp * h)
                pbyte == ((k - 1) \div h) % bpp
                row   == (k - 1) % h
                ccol  == col * bpp + pbyte
                tcol  == (w - 1 - col) * bpp + pbyte
            IN  <<row * bw + ccol, row * bw + tcol>>]

\* std::swap(data[i], data[j]) with 0-based i, j
SwapBytes(data, i, j) ==
    [data EXCEPT ![i + 1] = data[j + 1], ![j + 1] = data[i + 1]]

RECURSIVE ApplySwaps(_, _, _)
ApplySwaps(data, swaps, k) ==
    IF k > Len(swaps) THEN data
    ELSE ApplySwaps(SwapBytes(data, swaps[k][1], swaps[k][2]), swaps, k + 1)

flip_image_vertically(t) ==
    [t EXCEPT !.image_data = ApplySwaps(t.image_data, VerticalSwaps(t), 1)]

flip_image_horizontally(t) ==
    [t EXCEPT !.image_data = ApplySwaps(t.image_data, HorizontalSwaps(t), 1)]

(***************************************************************************)
(* parse_ext_area, parse_footer                                            *)
(***************************************************************************)
\* fread into a struct: the bytes delivered replace the start of the struct
Overlay(old, got) ==
    [i \in 1..Len(old) |-> IF i <= Len(got) THEN got[i] ELSE old[i]]

ExtWarnings(e) ==
    (IF U32At(e, COLOR_CORRECTION_OFFSET_AT) # 0
     THEN <<"there is a color correction table that we don't parse">>
     ELSE <<>>)
    \o (IF U32At(e, POSTAGE_STAMP_OFFSET_AT) # 0
        THEN <<"there is a postage stamp that we don't parse">> ELSE <<>>)
    \o (IF U32At(e, SCAN_LINE_TBL_OFFSET_AT) # 0
        THEN <<"there is a scan line table that we don't parse">> ELSE <<>>)

parse_ext_area(file, s) ==
    LET at  == s.t.footer.ext_area_offset
        got == Slice(file, at, EXT_AREA_SIZE)
        ev  == ReadEvent("extension area", at, EXT_AREA_SIZE, Len(got))
        e   == Overlay(s.t.ext_area, got)
        s1  == [s EXCEPT !.pos = at + Len(got),
                         !.reads = Append(s.reads, ev),
                         !.t.ext_area = e]
    IN  IF ExtLength(e) # EXT_AREA_SIZE
        THEN [s1 EXCEPT !.out =
                 Failure("AssertFail", "ext_area.length == EXT_AREA_SIZE")]
        ELSE [s1 EXCEPT !.warns = s.warns \o ExtWarnings(e)]

\* parse_footer that takes a developer area for an error
parse_footer_DevDirFails(file, s) ==
    IF Len(file) < FOOTER_SIZE
    THEN [s EXCEPT !.out = Failure("AssertFail", "!fseek(file, -26, SEEK_END)")]
    ELSE
        LET at  == Len(file) - FOOTER_SIZE
            got == Slice(file, at, FOOTER_SIZE)
            ev  == ReadEvent("footer", at, FOOTER_SIZE, Len(got))
            f   == FooterOf(got)
            s1  == [s EXCEPT
                       !.pos = at + Len(got),
                       !.reads = Append(s.reads, ev),
                       !.t.footer = f,
                       !.t.is_new_format =
                           strncmp_eq(f.signature, TGA_SIGNATURE, SIGNATURE_SIZE)]
        IN  IF Len(got) # FOOTER_SIZE
            THEN [s1 EXCEPT !.out = Failure("Truncated",
                                            "cannot read last 26 bytes from file")]
            ELSE IF f.dev_dir_offset # 0
            THEN [s1 EXCEPT !.out =
                     Failure("Unsupported",
                             "there is a developer area that we don't parse")]
            ELSE IF f.ext_area_offset # 0 THEN parse_ext_area(file, s1)
            ELSE s1

parse_footer(file, s) ==
    IF Len(file) < FOOTER_SIZE
    THEN [s EXCEPT !.out = Failure("AssertFail", "!fseek(file, -26, SEEK_END)")]
    ELSE
        LET at  == Len(file) - FOOTER_SIZE
            got == Slice(file, at, FOOTER_SIZE)
            ev  == ReadEvent("footer", at, FOOTER_SIZE, Len(got))
            f   == FooterOf(got)
            s1  == [s EXCEPT
                       !.pos = at + Len(got),
                       !.reads = Append(s.reads, ev),
                       !.t.footer = f,
                       !.t.is_new_format =
                           strncmp_eq(f.signature, TGA_SIGNATURE, SIGNATURE_SIZE),
                       !.warns = s.warns \o
                           (IF f.dev_dir_offset # 0
                            THEN <<"there is a developer area that we don't parse">>
                            ELSE <<>>)]
        IN  IF Len(got) # FOOTER_SIZE
            THEN [s1 EXCEPT !.out = Failure("Truncated",
                                            "cannot read last 26 bytes from file")]
            ELSE IF f.ext_area_offset # 0 THEN parse_ext_area(file, s1)
            ELSE s1

(***************************************************************************)
(* TGA::TGA(std::string_view): the steps of the constructor after          *)
(* parse_header.  Each takes the constructor's state and returns it        *)
(* unchanged when an earlier step has ended the process.                   *)
(***************************************************************************)
read_image_id(file, s) ==
    IF s.out.kind # "Ok" THEN s
    ELSE LET r == read_n_bytes(file, s, s.t.header.id_length, "image id")
         IN  [r.s EXCEPT !.t.image_id_data =
                            Overlay(Zeros(s.t.header.id_length), r.bytes)]

\* the color map read as one byte per entry
read_color_map_OneBytePerEntry(file, s) ==
    IF s.out.kind # "Ok" THEN s
    ELSE LET length == s.t.header.color_map_spec.length
             r      == read_n_bytes(file, s, length, "color map")
         IN  [r.s EXCEPT !.t.color_map = Overlay(Zeros(length), r.bytes)]

read_color_map(file, s) ==
    IF s.out.kind # "Ok" THEN s
    ELSE LET length == s.t.header.color_map_spec.length *
                         BytesPerEntry(s.t.header.color_map_spec.bits_per_pixel)
             r      == read_n_bytes(file, s, length, "color map")
         IN  [r.s EXCEPT !.t.color_map = Overlay(Zeros(length), r.bytes)]

\* check_supported without the test of the pixel width
check_supported_NoPixelGate(s) ==
    IF s.out.kind # "Ok" THEN s
    ELSE IF s.t.header.color_map_type = 1
    THEN IF s.t.header.image_type % 8 # 1
         THEN [s EXCEPT !.out =
                  Failure("AssertFail", "(image_type & 0x7) == 0x1")]
         ELSE IF ~(Len(s.t.color_map) > 0)
         THEN [s EXCEPT !.out = Failure("AssertFail", "color_map.size() > 0")]
         ELSE [s EXCEPT !.out =
                  Failure("Unsupported", "color-mapped images aren't supported")]
    ELSE IF s.t.header.color_map_type = 0 /\ s.t.header.image_type % 8 = 3
    THEN [s EXCEPT !.out =
             Failure("Unsupported", "gray-scale images aren't supported")]
    ELSE s

check_supported(s) ==
    IF s.out.kind # "Ok" THEN s
    ELSE IF s.t.header.color_map_type = 1
    THEN IF s.t.header.image_type % 8 # 1
         THEN [s EXCEPT !.out =
                  Failure("AssertFail", "(image_type & 0x7) == 0x1")]
         ELSE IF ~(Len(s.t.color_map) > 0)
         THEN [s EXCEPT !.out = Failure("AssertFail", "color_map.size() > 0")]
         ELSE [s EXCEPT !.out =
                  Failure("Unsupported", "color-mapped images aren't supported")]
    ELSE IF s.t.header.color_map_type = 0 /\ s.t.header.image_type % 8 = 3
    THEN [s EXCEPT !.out =
             Failure("Unsupported", "gray-scale images aren't supported")]
    ELSE IF get_pixel_width(s.t) < 3
    THEN [s EXCEPT !.out =
             Failure("Unsupported",
                     "other pixel formats than RGB(A) aren't support")]
    ELSE s

(***************************************************************************)
(* size_t length = height * width * get_pixel_width(): the operands are    *)
(* uint16_t and uint8_t, promoted to int, so both products are products of *)
(* 32-bit signed integers and the result is converted to size_t.  A        *)
(* product is kept as the pair of its low 16 bits and the rest.            *)
(***************************************************************************)
\* a * b for a, b below 2^16
Mul16(a, b) ==
    LET p1  == a * (b % 256)
        p2  == a * (b \div 256)
        low == p1 + (p2 % 256) * 256
    IN  [hi |-> (p2 \div 256) + (low \div 65536), lo |-> low % 65536]

\* x * k for k below 2^8
WideTimes(x, k) ==
    [hi |-> x.hi * k + ((x.lo * k) \div 65536), lo |-> (x.lo * k) % 65536]

\* x is at most INT_MAX
FitsInt(x) == x.hi < 32768

\* the int that holds the low 32 bits of x
Wrapped32(x) ==
    LET h16 == x.hi % 65536
    IN  IF h16 >= 32768 THEN (h16 - 65536) * 65536 + x.lo
        ELSE h16 * 65536 + x.lo

\* the value of height * width * get_pixel_width() as the int arithmetic
\* gives it when it wraps, and whether one of the two products overflowed
image_data_length(t) ==
    LET hw  == Mul16(t.header.image_spec.height, t.header.image_spec.width)
        hwp == WideTimes(hw, get_pixel_width(t))
    IN  [overflow |-> ~FitsInt(hw) \/ ~FitsInt(hwp), length |-> Wrapped32(hwp)]

read_image_data(file, s) ==
    IF s.out.kind # "Ok" THEN s
    ELSE
        LET L      == image_data_length(s.t)
            length == L.length
            is_rle == BitSet(s.t.header.image_type, 8)
            s0     == [s EXCEPT !.overflow = L.overflow]
        IN  IF length < 0
            THEN \* converted to size_t the length is above 2^63: resize and
                 \* new[] throw, nothing catches, the process aborts
                 [s0 EXCEPT !.out = Failure("Crash", "std::length_error")]
            ELSE IF ~is_rle
            THEN LET r == read_n_bytes(file, s0, length, "image data")
                 IN  [r.s EXCEPT !.t.image_data =
                                    IF r.s.out.kind = "Ok"
                                    THEN Overlay(Zeros(length), r.bytes)
                                    ELSE <<>>]
            ELSE LET buf == Slice(file, s0.pos, length)
                     ev  == ReadEvent("rle buffer", s0.pos, length, Len(buf))
                 IN  read_rle_image_data(
                         [s0 EXCEPT !.pos = s0.pos + Len(buf),
                                    !.reads = Append(s0.reads, ev)],
                         buf, Len(buf), length)

\* the end of the constructor without image_type &= 0xf7
normalize_KeepsRleFlag(s) ==
    IF s.out.kind # "Ok" THEN s
    ELSE
        LET t1 == s.t
            t2 == IF BitSet(t1.header.image_spec.descriptor, 32)
                  THEN flip_image_vertically(t1) ELSE t1
            t3 == IF BitSet(t2.header.image_spec.descriptor, 16)
                  THEN flip_image_horizontally(t2) ELSE t2
        IN  [s EXCEPT !.t = [t3 EXCEPT !.header.image_spec.descriptor =
                                          ClearBit(ClearBit(@, 16), 32)]]

normalize(s) ==
    IF s.out.kind # "Ok" THEN s
    ELSE
        LET t1 == [s.t EXCEPT !.header.image_type = ClearBit(@, 8)]
            t2 == IF BitSet(t1.header.image_spec.descriptor, 32)
                  THEN flip_image_vertically(t1) ELSE t1
            t3 == IF BitSet(t2.header.image_spec.descriptor, 16)
                  THEN flip_image_horizontally(t2) ELSE t2
        IN  [s EXCEPT !.t = [t3 EXCEPT !.header.image_spec.descriptor =
                                          ClearBit(ClearBit(@, 16), 32)]]

read_footer(file, s) ==
    IF s.out.kind # "Ok" THEN s ELSE parse_footer(file, s)

close_file(s) ==
    IF s.out.kind # "Ok" THEN s ELSE [s EXCEPT !.handle = "closed"]

DecodeFile(file) ==
    close_file(
      read_footer(file,
        normalize(
          read_image_data(file,
            check_supported(
              read_color_map(file,
                read_image_id(file,
                  parse_header(file, Opened))))))))

(***************************************************************************)
(* TGA::TGA(uint16_t, uint16_t, const Pixel&) and set_pixel                *)
(***************************************************************************)
Pixel(r, g, b, a) == [r |-> r, g |-> g, b |-> b, a |-> a]

DefaultPixel == Pixel(0, 0, 0, 255)

\* the body of set_pixel is empty
set_pixel(t, row, col, pixel) == t

\* the width of the image in bytes
get_width(t) == t.header.image_spec.width * get_pixel_width(t)

RECURSIVE FillLoop(_, _, _)
FillLoop(t, k, bg_pixel) ==
    IF k >= get_height(t) * get_width(t) THEN t
    ELSE FillLoop(set_pixel(t, k \div get_width(t), k % get_width(t), bg_pixel),
                  k + 1, bg_pixel)

NewCanvas(width, height, bg_pixel) ==
    LET t0 == [DefaultTGA EXCEPT
                  !.header.image_type = 2,
                  !.header.image_spec.width = width,
                  !.header.image_spec.height = height,
                  !.header.image_spec.bits_per_pixel = 32,
                  !.header.image_spec.descriptor = 8,
                  !.footer.signature = TGA_SIGNATURE]
        t1 == [t0 EXCEPT !.image_data =
                            Zeros(get_bytes_width(t0) * get_height(t0))]
    IN  FillLoop(t1, 0, bg_pixel)

(***************************************************************************)
(* write_to_file and update_ext_area                                       *)
(***************************************************************************)
\* update_ext_area that stamps the author and not the length
update_ext_area_NoLength(t) ==
    [t EXCEPT !.ext_area =
        [i \in 1..EXT_AREA_SIZE |->
            IF i > AUTHOR_NAME_OFFSET
               /\ i - AUTHOR_NAME_OFFSET <= Len(AUTHOR_NAME)
            THEN AUTHOR_NAME[i - AUTHOR_NAME_OFFSET]
            ELSE t.ext_area[i]]]

\* update_ext_area that clears the extension area before it stamps it
update_ext_area_ClearsFirst(t) ==
    [t EXCEPT !.ext_area =
        [i \in 1..EXT_AREA_SIZE |->
            IF i <= 2 THEN LE16(EXT_AREA_SIZE)[i]
            ELSE IF i - AUTHOR_NAME_OFFSET <= Len(AUTHOR_NAME)
            THEN AUTHOR_NAME[i - AUTHOR_NAME_OFFSET]
            ELSE 0]]

update_ext_area(t) ==
    [t EXCEPT !.ext_area =
        [i \in 1..EXT_AREA_SIZE |->
            IF i <= 2 THEN LE16(EXT_AREA_SIZE)[i]
            ELSE IF i - AUTHOR_NAME_OFFSET <= Len(AUTHOR_NAME)
            THEN AUTHOR_NAME[i - AUTHOR_NAME_OFFSET]
            ELSE t.ext_area[i]]]

WriteEvent(part, at, bytes) == [part |-> part, at |-> at, len |-> Len(bytes)]

\* write_to_file that writes the footer before the extension area
WriteParts_FooterFirst(t) ==
    LET front == <<[part |-> "header", bytes |-> HeaderBytes(t.header)],
                   [part |-> "color_map", bytes |-> t.color_map],
                   [part |-> "image_id_data", bytes |-> t.image_id_data],
                   [part |-> "image_data", bytes |-> t.image_data]>>
        ftell == Len(front[1].bytes) + Len(front[2].bytes)
                 + Len(front[3].bytes) + Len(front[4].bytes)
        t1    == update_ext_area(
                    [t EXCEPT !.footer.dev_dir_offset = 0,
                              !.footer.ext_area_offset = ftell])
    IN  [t |-> t1,
         parts |-> front \o
                   <<[part |-> "footer", bytes |-> FooterBytes(t1.footer)],
                     [part |-> "ext_area", bytes |-> t1.ext_area]>>]

\* write_to_file that hands its image data over to the writer and keeps none
WriteParts_MovesImageData(t) ==
    LET front == <<[part |-> "header", bytes |-> HeaderBytes(t.header)],
                   [part |-> "color_map", bytes |-> t.color_map],
                   [part |-> "image_id_data", bytes |-> t.image_id_data],
                   [part |-> "image_data", bytes |-> t.image_data]>>
        ftell == Len(front[1].bytes) + Len(front[2].bytes)
                 + Len(front[3].bytes) + Len(front[4].bytes)
        t1    == update_ext_area(
                    [t EXCEPT !.footer.dev_dir_offset = 0,
                              !.footer.ext_area_offset = ftell,
                              !.image_data = <<>>])
    IN  [t |-> t1,
         parts |-> front \o
                   <<[part |-> "ext_area", bytes |-> t1.ext_area],
                     [part |-> "footer", bytes |-> FooterBytes(t1.footer)]>>]

\* the fwrite calls of write_to_file, in their order; ftell between the
\* image data and the extension area gives footer.ext_area_offset
\* WriteParts with the offset of the extension area taken before the write
\* of image_data
WriteParts_OffsetBeforeData(t) ==
    LET front == <<[part |-> "header", bytes |-> HeaderBytes(t.header)],
                   [part |-> "color_map", bytes |-> t.color_map],
                   [part |-> "image_id_data", bytes |-> t.image_id_data],
                   [part |-> "image_data", bytes |-> t.image_data]>>
        ftell == Len(front[1].bytes) + Len(front[2].bytes)
                 + Len(front[3].bytes)
        t1    == update_ext_area(
                    [t EXCEPT !.footer.dev_dir_offset = 0,
                              !.footer.ext_area_offset = ftell])
    IN  [t |-> t1,
         parts |-> front \o
                   <<[part |-> "ext_area", bytes |-> t1.ext_area],
                     [part |-> "footer", bytes |-> FooterBytes(t1.footer)]>>]

WriteParts(t) ==
    LET front == <<[part |-> "header", bytes |-> HeaderBytes(t.header)],
                   [part |-> "color_map", bytes |-> t.color_map],
                   [part |-> "image_id_data", bytes |-> t.image_id_data],
                   [part |-> "image_data", bytes |-> t.image_data]>>
        ftell == Len(front[1].bytes) + Len(front[2].bytes)
                 + Len(front[3].bytes) + Len(front[4].bytes)
        t1    == update_ext_area(
                    [t EXCEPT !.footer.dev_dir_offset = 0,
                              !.footer.ext_area_offset = ftell])
    IN  [t |-> t1,
         parts |-> front \o
                   <<[part |-> "ext_area", bytes |-> t1.ext_area],
                     [part |-> "footer", bytes |-> FooterBytes(t1.footer)]>>]

RECURSIVE WriteAll(_, _, _)
WriteAll(parts, k, w) ==
    IF k > Len(parts) THEN w
    ELSE WriteAll(parts, k + 1,
                  [file |-> w.file \o parts[k].bytes,
                   log  |-> Append(w.log,
                                   WriteEvent(parts[k].part, Len(w.file),
                                              parts[k].bytes))])

write_to_file(t) ==
    LET opened == [out |-> Ok, t |-> t, file |-> <<>>, log |-> <<>>,
                   handle |-> "open"]
    IN  IF get_bytes_width(t) * get_height(t) # Len(t.image_data)
        THEN [opened EXCEPT !.out =
                 Failure("AssertFail",
                         "get_bytes_width() * get_height() == image_data.size()")]
        ELSE IF t.header.color_map_spec.length # Len(t.color_map)
        THEN [opened EXCEPT !.out =
                 Failure("AssertFail",
                         "color_map_spec.length == color_map.size()")]
        ELSE IF t.header.id_length # Len(t.image_id_data)
        THEN [opened EXCEPT !.out =
                 Failure("AssertFail", "id_length == image_id_data.size()")]
        ELSE LET wp == WriteParts(t)
                 w  == WriteAll(wp.parts, 1, [file |-> <<>>, log |-> <<>>])
             IN  [out |-> Ok, t |-> wp.t, file |-> w.file, log |-> w.log,
                  handle |-> "closed"]

(***************************************************************************)
(* The files the driver is given.  Each is the byte sequence of a header,  *)
(* the variable-length fields and a tail, whole or cut short.              *)
(***************************************************************************)
MkHeader(idl, cmt, type, first, cmlen, cmbpp, w, h, bpp, desc) ==
    [id_length |-> idl, color_map_type |-> cmt, image_type |-> type,
     color_map_spec |-> [first_entry_index |-> first, length |-> cmlen,
                         bits_per_pixel |-> cmbpp],
     image_spec |-> [x_origin |-> 0, y_origin |-> 0, width |-> w, height |-> h,
                     bits_per_pixel |-> bpp, descriptor |-> desc]]

\* n bytes, all different
Fresh(n, base) == [i \in 1..n |-> base + i]

FooterV2(ext_off) ==
    FooterBytes([ext_area_offset |-> ext_off, dev_dir_offset |-> 0,
                 signature |-> TGA_SIGNATURE])

Tails(front_len) ==
    {<<>>,
     FooterV2(0),
     update_ext_area(DefaultTGA).ext_area \o FooterV2(front_len)}

MkFile(h, id, cm, data, tail) == HeaderBytes(h) \o id \o cm \o data \o tail

Prefixes(f) == {Slice(f, 0, n) : n \in 0..Len(f)}

\* headers of every kind, well-formed or not, on a 0 or 1 pixel image
HeaderFamily ==
    {MkFile(MkHeader(0, cmt, type, first, cmlen, cmbpp, w, h, bpp, 0),
            <<>>, Fresh(cmlen * BytesPerEntry(cmbpp), 100),
            Fresh(w * h * BytesPerEntry(bpp), 0), FooterV2(0)) :
        cmt \in {0, 1, 2}, type \in {1, 2, 3, 9, 10, 11}, first \in {0, 1},
        cmlen \in {0, 1}, cmbpp \in {0, 8}, w \in {0, 1}, h \in {0, 1},
        bpp \in {0, 8, 24}}

\* uncompressed true-color images of every orientation
PixelFamily ==
    UNION {
      {MkFile(MkHeader(idl, 0, 2, 0, 0, 0, w, h, bpp, desc),
              Fresh(idl, 200), <<>>, Fresh(w * h * (bpp \div 8), 0), tail) :
          tail \in Tails(HEADER_SIZE + idl + w * h * (bpp \div 8))} :
      idl \in {0, MaxId}, w \in 1..MaxW, h \in 1..MaxH, bpp \in {24, 32},
      desc \in {0, 16, 32, 48}}

\* packets of the run-length encoding
RunPacket(n, px) == <<128 + (n - 1)>> \o px

RawPacket(n, pxs) == <<n - 1>> \o pxs

RleStreams(n, bpp) ==
    {RunPacket(n, Fresh(bpp, 10)),
     RunPacket(n + 1, Fresh(bpp, 10)),
     RawPacket(n, Fresh(n * bpp, 0))}
    \cup (IF n < 2 THEN {}
          ELSE {RawPacket(1, Fresh(bpp, 10)) \o RunPacket(n - 1, Fresh(bpp, 20)),
                RunPacket(n - 1, Fresh(bpp, 10)) \o RawPacket(1, Fresh(bpp, 20)),
                RunPacket(n - 1, Fresh(bpp, 10))})
    \cup (IF n < 3 THEN {}
          ELSE {RunPacket(1, Fresh(bpp, 10)) \o RawPacket(1, Fresh(bpp, 20))
                    \o RunPacket(n - 2, Fresh(bpp, 30))})

\* run-length encoded true-color images of every orientation
RleFamily ==
    UNION {
      {MkFile(MkHeader(0, 0, 10, 0, 0, 0, w, h, bpp, desc), <<>>, <<>>,
              stream, tail) :
          stream \in RleStreams(w * h, bpp \div 8),
          tail \in {FooterV2(0),
                    update_ext_area(DefaultTGA).ext_area
                        \o FooterV2(HEADER_SIZE + w * h * (bpp \div 8))}} :
      w \in 1..MaxW, h \in 1..MaxH, bpp \in {24, 32}, desc \in {0, 16, 32, 48}}

\* a file with an image ID and a color map, cut at every length
TruncFamily ==
    UNION {Prefixes(MkFile(MkHeader(MaxId, 2, 2, 0, 2, cmbpp, 1, 1, 24, 0),
                           Fresh(MaxId, 200),
                           Fresh(2 * BytesPerEntry(cmbpp), 100),
                           Fresh(3, 0), FooterV2(0))) :
           cmbpp \in {8, 15}}

\* a footer with every field given
FooterWith(ext_off, dev_off, sig) ==
    FooterBytes([ext_area_offset |-> ext_off, dev_dir_offset |-> dev_off,
                 signature |-> sig])

\* an extension area as update_ext_area leaves it, with the offsets of the
\* color correction table, the postage stamp and the scan line table
ExtAreaWith(cc, ps, sl) ==
    LET e == update_ext_area(DefaultTGA).ext_area
    IN  [i \in 1..EXT_AREA_SIZE |->
            IF i = COLOR_CORRECTION_OFFSET_AT + 1 THEN cc
            ELSE IF i = POSTAGE_STAMP_OFFSET_AT + 1 THEN ps
            ELSE IF i = SCAN_LINE_TBL_OFFSET_AT + 1 THEN sl
            ELSE e[i]]

\* "TRUEVISION-XFILE." with its last character changed
OtherSignature == [TGA_SIGNATURE EXCEPT ![SIGNATURE_SIZE - 1] = 33]

\* one-pixel images whose last 26 bytes have, or have not, the signature,
\* with zero and nonzero offsets of the extension area, the developer
\* directory and the tables of the extension area
DiagFamily ==
    LET front == MkFile(MkHeader(0, 0, 2, 0, 0, 0, 1, 1, 24, 0), <<>>, <<>>,
                        Fresh(3, 0), <<>>)
    IN  {front \o ExtAreaWith(cc, ps, sl) \o FooterWith(Len(front), dev, sig) :
            cc \in {0, 1}, ps \in {0, 1}, sl \in {0, 1}, dev \in {0, 7},
            sig \in {TGA_SIGNATURE, OtherSignature}}
        \cup {front \o FooterWith(ext, dev, sig) :
                 ext \in {0, 9}, dev \in {0, 7},
                 sig \in {TGA_SIGNATURE, OtherSignature}}

\* images with nonzero origins, an alpha depth and bits 6 and 7 of the
\* descriptor set, uncompressed and run-length encoded
CanonFamily ==
    LET hdr(type, w, h, bpp, desc) ==
            [MkHeader(0, 0, type, 0, 0, 0, w, h, bpp, desc) EXCEPT
                !.image_spec.x_origin = 5, !.image_spec.y_origin = 258]
    IN  {MkFile(hdr(2, 1, 2, 24, desc), <<>>, <<>>, Fresh(6, 0), FooterV2(0)) :
            desc \in {8, 64, 200, 248}}
        \cup {MkFile(hdr(10, 3, 3, 32, desc), <<>>, <<>>,
                     RawPacket(1, Fresh(4, 10)) \o RunPacket(8, Fresh(4, 20)),
                     FooterV2(0)) :
                 desc \in {8, 248}}

InputFiles ==
    HeaderFamily \cup PixelFamily \cup RleFamily \cup TruncFamily
    \cup DiagFamily \cup CanonFamily

PaintPixel == Pixel(1, 2, 3, 4)

CanvasPixels == {DefaultPixel, PaintPixel}

\* the places set_pixel is called at: the first and the last pixel, and the
\* first place past the last row and past the last column
PixelPlaces(t) ==
    LET h == get_height(t)
        w == t.header.image_spec.width
    IN  {<<0, 0>>, <<h, 0>>, <<0, w>>}
        \cup (IF h > 0 /\ w > 0 THEN {<<h - 1, w - 1>>} ELSE {})

(***************************************************************************)
(* The driver.                                                             *)
(***************************************************************************)
Operation(name, row, col, pixel) ==
    [name |-> name, row |-> row, col |-> col, pixel |-> pixel]

NoIo ==
    [handle |-> "none", reads |-> <<>>, writes |-> <<>>, warns |-> <<>>,
     overflow |-> FALSE]

Init ==
    /\ disk = NoFile
    /\ pc = "start"
    /\ img = NoImage
    /\ op = Operation("none", 0, 0, DefaultPixel)
    /\ outcome = Ok
    /\ pre = NoImage
    /\ io = NoIo
    /\ rle = NoRle
    /\ written = NoImage
    /\ origin = "none"

\* a file is at the path the driver will open
ProvideFile ==
    /\ pc = "start"
    /\ \E f \in InputFiles : disk' = f
    /\ pc' = "file"
    /\ origin' = "file"
    /\ UNCHANGED <<img, op, outcome, pre, io, rle, written>>

\* what the process does after a read outside the bytes read
Endings(out) ==
    IF out.kind = "OutOfBounds"
    THEN {Failure("AssertFail",
                  "data_len == 0 && pos + sizeof(Footer) == buf_len"),
          Failure("Crash", "segmentation fault")}
    ELSE {out}

\* the ends of a constructor: after a signed overflow the build may go on
\* with the wrapped value, as the steps of s did, or stop
EndingsOf(s) ==
    Endings(s.out)
    \cup (IF s.overflow THEN {Failure("Crash", "signed integer overflow")}
          ELSE {})

\* TGA tga_file { path }
Decode ==
    /\ pc \in {"file", "image"}
    /\ disk # NoFile
    /\ LET s == DecodeFile(disk)
       IN  \E o \in EndingsOf(s) :
              /\ outcome' = o
              /\ img' = IF o.kind = "Ok" THEN s.t ELSE NoImage
              /\ pc' = IF o.kind = "Ok" THEN "image" ELSE "exited"
              /\ io' = [handle |-> HandleAtEnd(o, s.handle), reads |-> s.reads,
                        writes |-> <<>>, warns |-> s.warns,
                        overflow |-> s.overflow]
              /\ rle' = s.rle
    /\ op' = Operation("decode", 0, 0, DefaultPixel)
    /\ pre' = img
    /\ UNCHANGED <<disk, written, origin>>

\* TGA tga_file { path } when there is no file at the path
OpenFails ==
    /\ pc = "start"
    /\ disk = NoFile
    /\ outcome' = Failure("OpenFail", "cannot open file")
    /\ pc' = "exited"
    /\ op' = Operation("decode", 0, 0, DefaultPixel)
    /\ pre' = img
    /\ io' = NoIo
    /\ UNCHANGED <<disk, img, rle, written, origin>>

\* TGA tga_file { width, height, bg_pixel }
Canvas ==
    /\ pc = "start"
    /\ \E width \in 0..MaxW, height \in 0..MaxH, bg_pixel \in CanvasPixels :
          /\ img' = NewCanvas(width, height, bg_pixel)
          /\ op' = Operation("canvas", height, width, bg_pixel)
    /\ pc' = "image"
    /\ origin' = "canvas"
    /\ outcome' = Ok
    /\ pre' = img
    /\ io' = NoIo
    /\ UNCHANGED <<disk, rle, written>>

\* TGA tga_file {}
Default ==
    /\ pc = "start"
    /\ img' = DefaultTGA
    /\ op' = Operation("default", 0, 0, DefaultPixel)
    /\ pc' = "image"
    /\ origin' = "default"
    /\ outcome' = Ok
    /\ pre' = img
    /\ io' = NoIo
    /\ UNCHANGED <<disk, rle, written>>

\* tga_file.set_pixel(row, col, pixel)
SetPixel ==
    /\ pc = "image"
    /\ \E at \in PixelPlaces(img) :
          /\ img' = set_pixel(img, at[1], at[2], PaintPixel)
          /\ op' = Operation("set_pixel", at[1], at[2], PaintPixel)
    /\ outcome' = Ok
    /\ pre' = img
    /\ io' = NoIo
    /\ UNCHANGED <<disk, pc, rle, written, origin>>

\* tga_file.write_to_file(path)
WriteToFile ==
    /\ pc = "image"
    /\ LET w == write_to_file(img)
       IN  /\ outcome' = w.out
           /\ disk' = w.file
           /\ img' = w.t
           /\ pc' = IF w.out.kind = "Ok" THEN "image" ELSE "exited"
           /\ io' = [handle |-> HandleAtEnd(w.out, w.handle),
                     reads |-> <<>>, writes |-> w.log,
                     warns |-> <<>>, overflow |-> FALSE]
           /\ written' = IF w.out.kind = "Ok" THEN w.t ELSE written
    /\ op' = Operation("write_to_file", 0, 0, DefaultPixel)
    /\ pre' = img
    /\ UNCHANGED <<rle, origin>>

Next ==
    \/ ProvideFile
    \/ Decode
    \/ OpenFails
    \/ Canvas
    \/ Default
    \/ SetPixel
    \/ WriteToFile

Spec == Init /\ [][Next]_vars

(***************************************************************************)
(* The constructor on headers of every size: files whose header declares   *)
(* widths and heights up to 65535, with a few bytes of pixel data.         *)
(***************************************************************************)
LargeDims == {1, 2, 255, 256, 32767, 32768, 46340, 46341, 65535}

LargeFiles ==
    {MkFile(MkHeader(0, 0, 2, 0, 0, 0, w, h, bpp, 0), <<>>, <<>>,
            Fresh(12, 0), FooterV2(0)) :
        w \in LargeDims, h \in LargeDims, bpp \in {24, 32, 255}}

\* a file with such a header is at the path the driver will open
ProvideLargeFile ==
    /\ pc = "start"
    /\ \E f \in LargeFiles : disk' = f
    /\ pc' = "file"
    /\ origin' = "file"
    /\ UNCHANGED <<img, op, outcome, pre, io, rle, written>>

SizeNext ==
    \/ ProvideLargeFile
    \/ Decode

SizeSpec == Init /\ [][SizeNext]_vars

(***************************************************************************)
(* What a file says, read off its bytes: the reference the claims compare  *)
(* the object with.                                                        *)
(***************************************************************************)
FileWidth(f)      == f[13] + 256 * f[14]
FileHeight(f)     == f[15] + 256 * f[16]
FileBpp(f)        == f[17]
FileDescriptor(f) == f[18]
FileIdLength(f)   == f[1]
FileCmType(f)     == f[2]
FileImageType(f)  == f[3]
FileCmFirst(f)    == f[4] + 256 * f[5]
FileCmLength(f)   == f[6] + 256 * f[7]
FileCmBpp(f)      == f[8]
FilePixelWidth(f) == (FileBpp(f) + 7) \div 8
FileCmBytes(f)    == FileCmLength(f) * ((FileCmBpp(f) + 7) \div 8)
FileTotalBytes(f) == FileWidth(f) * FileHeight(f) * FilePixelWidth(f)
FileDataAt(f)     == HEADER_SIZE + FileIdLength(f) + FileCmBytes(f)

\* the header of f is one parse_header accepts
FileHeaderValid(f) ==
    /\ Len(f) >= HEADER_SIZE
    /\ FileCmType(f) = 0 =>
          FileCmFirst(f) = 0 /\ FileCmLength(f) = 0 /\ FileCmBpp(f) = 0
    /\ FileWidth(f) # 0 /\ FileHeight(f) # 0 /\ FileBpp(f) # 0

\* the reference expansion of a packet stream: the pixels of the packets
\* from offset p on, until npix pixels are there.  "bad" when a packet is
\* not whole in the stream or the packets do not end at npix pixels.
RECURSIVE RefExpand(_, _, _, _)
RefExpand(stream, bpp, p, npix) ==
    IF npix = 0 THEN [bad |-> FALSE, bytes |-> <<>>, raws |-> 0, runs |-> 0]
    ELSE IF npix < 0 \/ p >= Len(stream)
    THEN [bad |-> TRUE, bytes |-> <<>>, raws |-> 0, runs |-> 0]
    ELSE
        LET b    == stream[p + 1]
            n    == IF b >= 128 THEN b - 128 + 1 ELSE b + 1
            size == IF b >= 128 THEN bpp ELSE n * bpp
            here == IF b >= 128
                    THEN [i \in 1..(n * bpp) |->
                             stream[p + 1 + (((i - 1) % bpp) + 1)]]
                    ELSE [i \in 1..(n * bpp) |-> stream[p + 1 + i]]
        IN  IF p + 1 + size > Len(stream)
            THEN [bad |-> TRUE, bytes |-> <<>>, raws |-> 0, runs |-> 0]
            ELSE LET rest == RefExpand(stream, bpp, p + 1 + size, npix - n)
                 IN  [bad |-> rest.bad, bytes |-> here \o rest.bytes,
                      raws |-> rest.raws + (IF b >= 128 THEN 0 ELSE 1),
                      runs |-> rest.runs + (IF b >= 128 THEN 1 ELSE 0)]

(***************************************************************************)
(* C1 as claimed: a blank canvas of any width and height, written by       *)
(* write_to_file and read back, gives an object with the same pixel data,  *)
(* width, height, pixel byte width, color map and image-ID bytes.          *)
(***************************************************************************)
ReadBackOfCanvas ==
    /\ origin = "canvas"
    /\ op.name = "decode"
    /\ written # NoImage

SameRetainedFields(a, b) ==
    /\ a.image_data = b.image_data
    /\ a.header.image_spec.width = b.header.image_spec.width
    /\ a.header.image_spec.height = b.header.image_spec.height
    /\ get_pixel_width(a) = get_pixel_width(b)
    /\ a.color_map = b.color_map
    /\ a.image_id_data = b.image_id_data

RleReference == RefExpand(rle.buf, rle.bpp, 0, rle.total \div rle.bpp)

C2_RleDecodeCorrect ==
    (rle.ran /\ ~RleReference.bad) =>
        /\ ~rle.oob
        /\ rle.out = RleReference.bytes
        /\ Len(rle.out) = rle.total

C2_Witness ==
    /\ rle.ran
    /\ ~RleReference.bad
    /\ RleReference.raws > 0
    /\ RleReference.runs > 0
    /\ rle.bpp = 4
    /\ rle.out = RleReference.bytes
    /\ outcome.kind = "Ok"

(***************************************************************************)
(* C3 as claimed: the loop of read_rle_image_data never reads buf at an    *)
(* index at or beyond the number of bytes read from the file and never     *)
(* appends more than total_bytes bytes to image_data; a packet that would  *)
(* do either makes the decode fail with CorruptRLE.                        *)
(***************************************************************************)
C3_RleBounds ==
    (op.name = "decode" /\ rle.ran) =>
        /\ ~rle.oob
        /\ Len(rle.out) <= rle.total
        /\ RleReference.bad => outcome.kind = "CorruptRLE"

(***************************************************************************)
(* C4 as claimed, on the files it is about (a header that parse_header     *)
(* accepts, the declared image-ID and color-map bytes present): decoding a *)
(* file whose header has color_map_type == 1 ends with the Unsupported     *)
(* error whatever the image_type and the length of the color map; it never *)
(* ends in an assertion failure and never yields an image.                 *)
(***************************************************************************)
C4_ColorMappedUnsupported ==
    (/\ op.name = "decode"
     /\ FileHeaderValid(disk)
     /\ FileCmType(disk) = 1
     /\ Len(disk) >= FileDataAt(disk)) =>
        /\ outcome.kind = "Unsupported"
        /\ img = NoImage

(***************************************************************************)
(* C5: decoding a file that holds a whole header fails with Malformed      *)
(* exactly when color_map_type == 0 and one of the color map's             *)
(* first_entry_index, length, bits_per_pixel is nonzero, or width, height  *)
(* or bits_per_pixel of the image is 0; and then nothing after the 18      *)
(* bytes of the header was read.                                           *)
(***************************************************************************)
C5_MalformedExactly ==
    (op.name = "decode" /\ Len(disk) >= HEADER_SIZE) =>
        /\ (outcome.kind = "Malformed") <=>
              \/ /\ disk[2] = 0
                 /\ \/ U16At(disk, 3) # 0
                    \/ U16At(disk, 5) # 0
                    \/ disk[8] # 0
              \/ U16At(disk, 12) = 0
              \/ U16At(disk, 14) = 0
              \/ disk[17] = 0
        /\ outcome.kind = "Malformed" =>
              /\ img = NoImage
              /\ \A i \in 1..Len(io.reads) :
                    io.reads[i].at + io.reads[i].got <= HEADER_SIZE

C5_Witness ==
    /\ op.name = "decode"
    /\ Len(disk) > HEADER_SIZE
    /\ outcome.kind = "Malformed"
    /\ FileCmType(disk) = 2
    /\ FileWidth(disk) = 0
    /\ FileHeight(disk) = 1

(***************************************************************************)
(* C6: when the decode comes to read the image-ID field, the color map or  *)
(* the uncompressed pixel data and the file holds fewer bytes than the     *)
(* header declares for it, the decode fails with Truncated, naming the     *)
(* field, the number of bytes expected and the number got; a decode that   *)
(* succeeds has every field at its declared length, with the file's bytes. *)
(***************************************************************************)
FileSupported(f) ==
    /\ FileCmType(f) # 1
    /\ ~(FileCmType(f) = 0 /\ FileImageType(f) % 8 = 3)
    /\ FilePixelWidth(f) >= 3

FileIsRle(f) == (FileImageType(f) \div 8) % 2 = 1

TruncatedAt(name, n, ret) ==
    /\ outcome.kind = "Truncated"
    /\ outcome.field = name
    /\ outcome.expected = n
    /\ outcome.actual = ret
    /\ img = NoImage

OnDiskPixels(f) ==
    LET raw == Slice(f, FileDataAt(f), FileTotalBytes(f))
    IN  IF FileIsRle(f)
        THEN RefExpand(raw, FilePixelWidth(f), 0,
                       FileWidth(f) * FileHeight(f)).bytes
        ELSE raw

C7_Orientation ==
    (op.name = "decode" /\ outcome.kind = "Ok") =>
        LET w   == FileWidth(disk)
            h   == FileHeight(disk)
            pw  == FilePixelWidth(disk)
            d   == FileDescriptor(disk)
            src == OnDiskPixels(disk)
        IN  /\ Len(img.image_data) = w * h * pw
            /\ \A r \in 0..(h - 1), c \in 0..(w - 1), k \in 1..pw :
                  LET r2 == IF (d \div 32) % 2 = 1 THEN h - 1 - r ELSE r
                      c2 == IF (d \div 16) % 2 = 1 THEN w - 1 - c ELSE c
                  IN  img.image_data[(r * w + c) * pw + k]
                          = src[(r2 * w + c2) * pw + k]

C7_Witness ==
    /\ op.name = "decode"
    /\ outcome.kind = "Ok"
    /\ origin = "file"
    /\ written = NoImage
    /\ FileWidth(disk) = 3
    /\ FileHeight(disk) = 3
    /\ FilePixelWidth(disk) = 3
    /\ FileDescriptor(disk) = 48
    /\ ~FileIsRle(disk)
    /\ img.image_data[1] = disk[FileDataAt(disk) + 25]
    /\ img.image_data[13] = disk[FileDataAt(disk) + 13]

(***************************************************************************)
(* C8 as claimed: set_pixel(row, col, pixel) with row >= height or         *)
(* col >= width fails with BoundsError and leaves image_data unchanged;    *)
(* otherwise it succeeds and writes the channels of the pixel into the     *)
(* pixel_byte_width bytes at the row-major offset of the pixel and leaves  *)
(* every other byte unchanged.                                             *)
(***************************************************************************)
C8_SetPixelBounds ==
    op.name = "set_pixel" =>
        LET h   == get_height(pre)
            w   == pre.header.image_spec.width
            pw  == get_pixel_width(pre)
            off == (op.row * w + op.col) * pw
        IN  IF op.row >= h \/ op.col >= w
            THEN /\ outcome.kind = "BoundsError"
                 /\ img.image_data = pre.image_data
            ELSE /\ outcome.kind = "Ok"
                 /\ Len(img.image_data) = Len(pre.image_data)
                 /\ \A i \in 1..Len(pre.image_data) :
                       (i <= off \/ i > off + pw) =>
                           img.image_data[i] = pre.image_data[i]
                 /\ {img.image_data[off + k] : k \in 1..pw}
                       \subseteq {op.pixel.r, op.pixel.g, op.pixel.b, op.pixel.a}

(***************************************************************************)
(* C9 as claimed: the object constructed from (width, height, background)  *)
(* has image_data of width * height * 4 bytes in which every pixel holds   *)
(* the channels of the background pixel, image_type == 2,                  *)
(* bits_per_pixel == 32, alpha depth 8 and the flip bits clear.            *)
(***************************************************************************)
C9_BlankCanvas ==
    op.name = "canvas" =>
        LET width  == op.col
            height == op.row
        IN  /\ Len(img.image_data) = width * height * 4
            /\ \A p \in 0..(width * height - 1) :
                  {img.image_data[4 * p + k] : k \in 1..4}
                      = {op.pixel.r, op.pixel.g, op.pixel.b, op.pixel.a}
            /\ img.header.image_type = 2
            /\ img.header.image_spec.bits_per_pixel = 32
            /\ img.header.image_spec.descriptor % 16 = 8
            /\ (img.header.image_spec.descriptor \div 16) % 4 = 0

(***************************************************************************)
(* C10: a write_to_file that returns has written the header, the color     *)
(* map, the image-ID bytes, the image data, the extension area and the     *)
(* footer, each once, one after the other in that order from offset 0, so  *)
(* the footer is the last 26 bytes of the file.                            *)
(***************************************************************************)
PartAt(k) == Slice(disk, io.writes[k].at, io.writes[k].len)

C10_EncodeOrder ==
    (op.name = "write_to_file" /\ outcome.kind = "Ok") =>
        /\ [k \in 1..Len(io.writes) |-> io.writes[k].part]
              = <<"header", "color_map", "image_id_data", "image_data",
                  "ext_area", "footer">>
        /\ io.writes[1].at = 0
        /\ \A k \in 1..5 :
              io.writes[k + 1].at = io.writes[k].at + io.writes[k].len
        /\ Len(disk) = io.writes[6].at + io.writes[6].len
        /\ Len(disk) = HEADER_SIZE + Len(img.color_map)
                       + Len(img.image_id_data) + Len(img.image_data)
                       + EXT_AREA_SIZE + FOOTER_SIZE
        /\ Slice(disk, 0, HEADER_SIZE) = HeaderBytes(img.header)
        /\ Slice(disk, HEADER_SIZE, Len(img.color_map)) = img.color_map
        /\ Slice(disk, HEADER_SIZE + Len(img.color_map),
                 Len(img.image_id_data)) = img.image_id_data
        /\ Slice(disk, HEADER_SIZE + Len(img.color_map)
                       + Len(img.image_id_data),
                 Len(img.image_data)) = img.image_data
        /\ Slice(disk, Len(disk) - FOOTER_SIZE - EXT_AREA_SIZE, EXT_AREA_SIZE)
              = img.ext_area
        /\ Slice(disk, Len(disk) - FOOTER_SIZE, FOOTER_SIZE)
              = FooterBytes(img.footer)
        /\ Slice(disk, Len(disk) - SIGNATURE_SIZE, SIGNATURE_SIZE)
              = img.footer.signature

C10_Witness ==
    /\ op.name = "write_to_file"
    /\ outcome.kind = "Ok"
    /\ Len(img.color_map) = 2
    /\ Len(img.image_id_data) = MaxId
    /\ Len(img.image_data) = 3
    /\ Len(io.writes) = 6
    /\ Len(disk) = HEADER_SIZE + 2 + MaxId + 3 + EXT_AREA_SIZE + FOOTER_SIZE

(***************************************************************************)
(* C11 as claimed: write_to_file checks, before it writes or truncates     *)
(* anything at the path, that image_data has width * height *              *)
(* pixel_byte_width bytes, color_map has color_map_spec.length *           *)
(* bytes_per_entry bytes and image_id_data has id_length bytes; it is      *)
(* rejected exactly when one of the three does not hold, and a rejected    *)
(* write leaves the file at the path as it was.  The rejection of the code *)
(* is the failed assert.                                                   *)
(***************************************************************************)
SizesFit(t) ==
    /\ Len(t.image_data) = t.header.image_spec.width
                              * t.header.image_spec.height * get_pixel_width(t)
    /\ Len(t.color_map) = t.header.color_map_spec.length
                             * BytesPerEntry(t.header.color_map_spec.bits_per_pixel)
    /\ Len(t.image_id_data) = t.header.id_length

C11_EncodeValidation ==
    [][op'.name = "write_to_file" =>
          /\ (outcome'.kind \in {"SizeMismatch", "AssertFail"}) <=> ~SizesFit(img)
          /\ outcome'.kind # "Ok" => disk' = disk]_vars

(***************************************************************************)
(* C12 as claimed: decoding a file whose header is well formed and has     *)
(* base image type 3 (image_type & 0x7 == 3) ends with the Unsupported     *)
(* error for every color_map_type, with or without the RLE flag, and       *)
(* yields no image.                                                        *)
(***************************************************************************)
C12_GrayscaleUnsupported ==
    (/\ op.name = "decode"
     /\ FileHeaderValid(disk)
     /\ FileImageType(disk) % 8 = 3
     /\ Len(disk) >= FileDataAt(disk)) =>
        /\ outcome.kind = "Unsupported"
        /\ img = NoImage

(***************************************************************************)
(* C13 as claimed: when the decode of a file shorter than 26 bytes comes   *)
(* to parse_footer (header, image ID, color map and pixel data were read), *)
(* it fails with the Truncated error; it does not abort on the failed      *)
(* seek.                                                                   *)
(***************************************************************************)
ReachesFooter(f) ==
    /\ FileHeaderValid(f)
    /\ FileSupported(f)
    /\ ~FileIsRle(f)
    /\ Len(f) >= FileDataAt(f) + FileTotalBytes(f)

C13_FooterTruncated ==
    (/\ op.name = "decode"
     /\ ReachesFooter(disk)
     /\ Len(disk) < FOOTER_SIZE) =>
        /\ outcome.kind = "Truncated"
        /\ img = NoImage

(***************************************************************************)
(* C14 as claimed: is_new_format is true exactly when the 18 bytes of the  *)
(* signature in the last 26 bytes of the file are "TRUEVISION-XFILE.";     *)
(* when they are not, the decode reads no extension area and succeeds      *)
(* whatever stands at the places of ext_area_offset and dev_dir_offset.    *)
(***************************************************************************)
HasRead(name) == \E i \in 1..Len(io.reads) : io.reads[i].name = name

FileSignature(f) == Slice(f, Len(f) - SIGNATURE_SIZE, SIGNATURE_SIZE)

C14_LegacyV1 ==
    (op.name = "decode" /\ HasRead("footer")) =>
        /\ outcome.kind = "Ok" =>
              (img.is_new_format <=> FileSignature(disk) = TGA_SIGNATURE)
        /\ FileSignature(disk) # TGA_SIGNATURE =>
              /\ ~HasRead("extension area")
              /\ outcome.kind = "Ok"

C16_EncodeIsRead ==
    [][(op'.name = "write_to_file" /\ outcome'.kind = "Ok") =>
          /\ img'.image_data = img.image_data
          /\ img'.header = img.header
          /\ img'.color_map = img.color_map
          /\ img'.image_id_data = img.image_id_data
          /\ (op.name = "write_to_file" /\ outcome.kind = "Ok") =>
                 disk' = disk]_vars

C16_Witness ==
    /\ origin = "canvas"
    /\ op.name = "write_to_file"
    /\ outcome.kind = "Ok"
    /\ pre = img
    /\ written = img
    /\ Len(img.image_data) = 24
    /\ Len(disk) = HEADER_SIZE + 24 + EXT_AREA_SIZE + FOOTER_SIZE

(***************************************************************************)
(* C17 as claimed: however a decode or a write_to_file that opened the     *)
(* file ends (success, an error reported by fail, a failed assertion), the *)
(* FILE has been closed: by fclose, or by the exit that fail calls.        *)
(***************************************************************************)
C17_HandleReleased ==
    (op.name \in {"decode", "write_to_file"} /\ io.handle # "none") =>
        io.handle \in {"closed", "exit"}

(***************************************************************************)
(* C18 as claimed: is_empty_image is true exactly of the objects whose     *)
(* image_type is 0, and the two objects of which main asserts that they    *)
(* are not empty, the one decoded from a file and the one constructed      *)
(* without arguments, are not empty.                                       *)
(***************************************************************************)
C18_MainAssertsNotEmpty ==
    (\/ op.name = "default"
     \/ op.name = "decode" /\ outcome.kind = "Ok") =>
        /\ is_empty_image(img) <=> img.header.image_type = 0
        /\ ~is_empty_image(img)

(***************************************************************************)
(* C20 as claimed: the loop of read_rle_image_data ends for every buffer   *)
(* and every total_bytes, with total_bytes bytes of output or with a       *)
(* failure the code reports; it does not run on outside the buffer when    *)
(* the last packet gives more bytes than remain or when the buffer ends    *)
(* before total_bytes is reached.                                          *)
(***************************************************************************)
C20_RleTerminates ==
    (op.name = "decode" /\ rle.ran) =>
        /\ ~rle.oob
        /\ outcome.kind # "Crash"
        /\ Len(rle.out) = rle.total \/ outcome.kind # "Ok"

(***************************************************************************)
(* C19: a file and the file that differs from it only in having zero at    *)
(* dev_dir_offset and at the offsets of the color correction table, the    *)
(* postage stamp and the scan line table decode to the same end (success   *)
(* or the same error) and, on success, to the same pixel data, header,     *)
(* image ID and color map; the nonzero values give warnings only.          *)
(***************************************************************************)
FileExtOffset(f) == U32At(f, Len(f) - FOOTER_SIZE)

\* f ends with a footer, and with an extension area at the place the footer
\* names, after the pixel data and before the footer
HasDiagnostics(f) ==
    /\ FileHeaderValid(f)
    /\ Len(f) >= FileDataAt(f) + FileTotalBytes(f) + FOOTER_SIZE
    /\ \/ FileExtOffset(f) = 0
       \/ /\ FileExtOffset(f) >= FileDataAt(f) + FileTotalBytes(f)
          /\ FileExtOffset(f) + EXT_AREA_SIZE + FOOTER_SIZE <= Len(f)

\* f with dev_dir_offset and the three offsets of the extension area zero
ZeroDiagnostics(f) ==
    LET e == FileExtOffset(f)
    IN  [i \in 1..Len(f) |->
            IF i > Len(f) - FOOTER_SIZE + 4 /\ i <= Len(f) - FOOTER_SIZE + 8
            THEN 0
            ELSE IF /\ e # 0
                    /\ i > e + COLOR_CORRECTION_OFFSET_AT
                    /\ i <= e + SCAN_LINE_TBL_OFFSET_AT + 4
            THEN 0
            ELSE f[i]]

C19_DiagnosticsNeverFail ==
    (op.name = "decode" /\ HasDiagnostics(disk)) =>
        LET a == DecodeFile(disk)
            b == DecodeFile(ZeroDiagnostics(disk))
        IN  /\ a.out = b.out
            /\ b.warns = <<>>
            /\ outcome \in Endings(b.out)
            /\ outcome.kind = "Ok" =>
                  /\ img.image_data = b.t.image_data
                  /\ img.header = b.t.header
                  /\ img.image_id_data = b.t.image_id_data
                  /\ img.color_map = b.t.color_map

C19_Witness ==
    /\ op.name = "decode"
    /\ HasDiagnostics(disk)
    /\ disk # ZeroDiagnostics(disk)
    /\ outcome.kind = "Ok"
    /\ Len(io.warns) = 4
    /\ img.is_new_format

(***************************************************************************)
(* C21: after a successful decode the header of the object has bits 4 and  *)
(* 5 of the descriptor and bit 3 of image_type clear, and every other bit  *)
(* and field of it (the low 3 bits of image_type, the alpha depth, bits 6  *)
(* and 7 of the descriptor, width, height, the origins, id_length, the     *)
(* color map type and spec, bits_per_pixel) is as the file has it.         *)
(***************************************************************************)
FileXOrigin(f) == f[9] + 256 * f[10]
FileYOrigin(f) == f[11] + 256 * f[12]

C21_HeaderCanonical ==
    (op.name = "decode" /\ outcome.kind = "Ok") =>
        LET h  == img.header
            ft == FileImageType(disk)
            fd == FileDescriptor(disk)
        IN  /\ (h.image_type \div 8) % 2 = 0
            /\ (h.image_spec.descriptor \div 16) % 4 = 0
            /\ h.image_type = ft - 8 * ((ft \div 8) % 2)
            /\ h.image_spec.descriptor = fd - 16 * ((fd \div 16) % 4)
            /\ h.id_length = FileIdLength(disk)
            /\ h.color_map_type = FileCmType(disk)
            /\ h.color_map_spec.first_entry_index = FileCmFirst(disk)
            /\ h.color_map_spec.length = FileCmLength(disk)
            /\ h.color_map_spec.bits_per_pixel = FileCmBpp(disk)
            /\ h.image_spec.x_origin = FileXOrigin(disk)
            /\ h.image_spec.y_origin = FileYOrigin(disk)
            /\ h.image_spec.width = FileWidth(disk)
            /\ h.image_spec.height = FileHeight(disk)
            /\ h.image_spec.bits_per_pixel = FileBpp(disk)

C21_Witness ==
    /\ op.name = "decode"
    /\ outcome.kind = "Ok"
    /\ FileImageType(disk) = 10
    /\ FileDescriptor(disk) = 248
    /\ FileXOrigin(disk) = 5
    /\ img.header.image_type = 2
    /\ img.header.image_spec.descriptor = 200
    /\ img.header.image_spec.y_origin = 258

(***************************************************************************)
(* C22: in the file that write_to_file wrote, the length field of the      *)
(* extension area is the size of the extension area, its author name is    *)
(* "Daniel Schuette", and every other byte of the extension area is the    *)
(* byte the object held before the write (read by the decode, or zero in   *)
(* an object that was constructed).                                        *)
(***************************************************************************)
WrittenExtArea ==
    Slice(disk, Len(disk) - FOOTER_SIZE - EXT_AREA_SIZE, EXT_AREA_SIZE)

C22_ExtAreaStamped ==
    (op.name = "write_to_file" /\ outcome.kind = "Ok") =>
        /\ Len(WrittenExtArea) = EXT_AREA_SIZE
        /\ WrittenExtArea[1] + 256 * WrittenExtArea[2] = EXT_AREA_SIZE
        /\ Slice(WrittenExtArea, AUTHOR_NAME_OFFSET, Len(AUTHOR_NAME))
              = AUTHOR_NAME
        /\ \A i \in (AUTHOR_NAME_OFFSET + Len(AUTHOR_NAME) + 1)..EXT_AREA_SIZE :
              WrittenExtArea[i] = pre.ext_area[i]

C22_Witness ==
    /\ op.name = "write_to_file"
    /\ outcome.kind = "Ok"
    /\ origin = "file"
    /\ WrittenExtArea[COLOR_CORRECTION_OFFSET_AT + 1] = 1
    /\ WrittenExtArea[SCAN_LINE_TBL_OFFSET_AT + 1] = 1
    /\ pre.footer.dev_dir_offset = 7

(***************************************************************************)
(* C23 as claimed: for every width and height of 16 bits and every         *)
(* bits_per_pixel, the length the constructor computes as                  *)
(* height * width * pixel_byte_width is the product of the three numbers,  *)
(* and the product of height and width, computed in 32-bit signed          *)
(* arithmetic, is at most 2^31 - 1.                                        *)
(***************************************************************************)
\* the decode of f comes to compute the length of the pixel data
ReachesLength(f) ==
    /\ FileHeaderValid(f)
    /\ FileSupported(f)
    /\ Len(f) >= FileDataAt(f)

\* a number from 0 to 2^31 - 1 as the pair of its low 16 bits and the rest
WideOfInt(n) == [hi |-> n \div 65536, lo |-> n % 65536]

C23_NoOverflow ==
    (op.name = "decode" /\ ReachesLength(disk)) =>
        LET hw      == Mul16(FileHeight(disk), FileWidth(disk))
            product == WideTimes(hw, FilePixelWidth(disk))
        IN  /\ FitsInt(hw)
            /\ ~io.overflow
            /\ \A i \in 1..Len(io.reads) :
                  io.reads[i].name \in {"image data", "rle buffer"} =>
                      WideOfInt(io.reads[i].want) = product

(***************************************************************************)
(* C24 as claimed: for every well-formed run-length encoded file (the      *)
(* packets expand to exactly total_bytes), with or without an extension    *)
(* area between the pixel data and the footer, the assertion that ends     *)
(* read_rle_image_data holds: no decoded length remains and the consumed   *)
(* source bytes plus the 26 bytes of a footer are the bytes read.          *)
(***************************************************************************)
C24_RleEndAssertion ==
    (op.name = "decode" /\ rle.ran /\ ~RleReference.bad) =>
        /\ rle.data_len = 0
        /\ rle.pos + FOOTER_SIZE = rle.buf_len
        /\ outcome.kind # "AssertFail"

(***************************************************************************)
(* C25 as claimed: an object decoded from a file, with image-ID bytes and  *)
(* color-map bytes, is written by write_to_file without failure, and the   *)
(* decode of the file written yields the image_id_data and the color_map   *)
(* of the object written.                                                  *)
(***************************************************************************)
HasIdAndColorMap(t) ==
    /\ t # NoImage
    /\ t.image_id_data # <<>>
    /\ t.color_map # <<>>

ReadBackOfDecoded ==
    /\ origin = "file"
    /\ op.name = "decode"
    /\ written # NoImage

C25_FieldOrderAgrees ==
    /\ (origin = "file" /\ op.name = "write_to_file" /\ HasIdAndColorMap(pre))
           => outcome.kind = "Ok"
    /\ (ReadBackOfDecoded /\ HasIdAndColorMap(written)) =>
           /\ outcome.kind = "Ok"
           /\ img.image_id_data = written.image_id_data
           /\ img.color_map = written.color_map

(***************************************************************************)
(* C26 as claimed: for every file that decodes, writing the decoded object *)
(* and decoding the file written succeeds and yields the pixel data and    *)
(* the header of the first decode: the rows and columns are not flipped    *)
(* and the packets not expanded a second time.                             *)
(***************************************************************************)
C26_RedecodeStable ==
    /\ (origin = "file" /\ op.name = "write_to_file") => outcome.kind = "Ok"
    /\ ReadBackOfDecoded =>
           /\ outcome.kind = "Ok"
           /\ img.image_data = written.image_data
           /\ img.header = written.header

(***************************************************************************)
(* C27: the decode of a file whose pixels are less than 3 bytes wide       *)
(* (bits_per_pixel at most 16) fails and yields no image, so a decoded     *)
(* image has pixels of 3 bytes or more; the failure that names the pixel   *)
(* format comes after the reads of the image ID and of the color map, and  *)
(* no failed decode of such a file has read pixel data.                    *)
(***************************************************************************)
PixelFormatFailure ==
    /\ outcome.kind = "Unsupported"
    /\ outcome.msg = "other pixel formats than RGB(A) aren't support"

C27_PixelFormatGate ==
    op.name = "decode" =>
        /\ (Len(disk) >= HEADER_SIZE /\ FilePixelWidth(disk) < 3) =>
               /\ outcome.kind # "Ok"
               /\ img = NoImage
               /\ ~HasRead("image data")
               /\ ~HasRead("rle buffer")
        /\ outcome.kind = "Ok" => get_pixel_width(img) >= 3
        /\ PixelFormatFailure =>
               /\ FilePixelWidth(disk) < 3
               /\ HasRead("image id")
               /\ HasRead("color map")

C27_Witness ==
    /\ op.name = "decode"
    /\ PixelFormatFailure
    /\ FileBpp(disk) = 8
    /\ FileCmType(disk) = 2
    /\ FileCmBytes(disk) = 1
    /\ io.reads[Len(io.reads)].name = "color map"
    /\ io.reads[Len(io.reads)].got = 1

(***************************************************************************)
(* C28: in a file written by write_to_file the footer's ext_area_offset is *)
(* the offset at which the extension area was written, which is the size   *)
(* of the header plus the lengths of color_map, image_id_data and          *)
(* image_data; its dev_dir_offset is 0; and the file is as long as that    *)
(* offset plus the extension area plus the 26 bytes of the footer.         *)
(***************************************************************************)
FileDevDirOffset(f) == U32At(f, Len(f) - FOOTER_SIZE + 4)

C28_FooterOffsets ==
    (op.name = "write_to_file" /\ outcome.kind = "Ok") =>
        LET start == HEADER_SIZE + Len(pre.color_map)
                     + Len(pre.image_id_data) + Len(pre.image_data)
        IN  /\ FileExtOffset(disk) = start
            /\ \E k \in 1..Len(io.writes) :
                   /\ io.writes[k].part = "ext_area"
                   /\ io.writes[k].at = start
                   /\ io.writes[k].len = EXT_AREA_SIZE
            /\ FileDevDirOffset(disk) = 0
            /\ Len(disk) = start + EXT_AREA_SIZE + FOOTER_SIZE

C28_Witness ==
    /\ origin = "file"
    /\ op.name = "write_to_file"
    /\ outcome.kind = "Ok"
    /\ pre.footer.dev_dir_offset = 7
    /\ pre.footer.ext_area_offset = 0
    /\ FileExtOffset(disk) = HEADER_SIZE + 3
    /\ FileDevDirOffset(disk) = 0

(***************************************************************************)
(* C29 as claimed: every file written by write_to_file ends with a footer  *)
(* whose signature is "TRUEVISION-XFILE.", whether the object was          *)
(* constructed as a canvas, constructed without arguments, or decoded from *)
(* a file without the signature.                                           *)
(***************************************************************************)
C29_WrittenIsNewFormat ==
    (op.name = "write_to_file" /\ outcome.kind = "Ok") =>
        FileSignature(disk) = TGA_SIGNATURE

(***************************************************************************)
(* C30: on every image, of even and odd width and height and pixels of 3   *)
(* and 4 bytes, flip_image_vertically and flip_image_horizontally swap     *)
(* only bytes inside image_data, each applied twice gives image_data back, *)
(* the two applied in either order give the same image_data, and each      *)
(* leaves the length of image_data and the multiset of its pixels as they  *)
(* were.                                                                   *)
(***************************************************************************)
\* every swap of the sequence touches two bytes of data
SwapsInside(swaps, data) ==
    \A k \in 1..Len(swaps) :
        /\ swaps[k][1] \in 0..(Len(data) - 1)
        /\ swaps[k][2] \in 0..(Len(data) - 1)

\* the pixels of t, in the order of image_data
PixelsOf(t) ==
    LET bpp == get_pixel_width(t)
    IN  IF bpp = 0 THEN <<>>
        ELSE [i \in 1..(Len(t.image_data) \div bpp) |->
                 Slice(t.image_data, (i - 1) * bpp, bpp)]

\* a and b hold the same pixels, each as many times
SamePixels(a, b) ==
    LET pa == PixelsOf(a)
        pb == PixelsOf(b)
    IN  /\ Len(pa) = Len(pb)
        /\ \A i \in 1..Len(pa) :
               Cardinality({j \in 1..Len(pa) : pa[j] = pa[i]})
                   = Cardinality({j \in 1..Len(pb) : pb[j] = pa[i]})

====
